---- MODULE Spec2Model ----
(***************************************************************************)
(* Model of the decision pipeline of rasa.core:                            *)
(*   - MappingPolicy.predict_action_probabilities                          *)
(*     (rasa/core/policies/mapping_policy.py) over a dialogue tracker's    *)
(*     event log and a domain;                                             *)
(*   - RegexInterpreter.extract_intent_and_entities                        *)
(*     (rasa/core/interpreter.py), the intent/entity grammar parser.       *)
(* Texts whose characters matter (policy names, parser input) are          *)
(* sequences of one-character strings; names that are only compared for   *)
(* equality (intents, action names) are strings.                           *)
(***************************************************************************)
EXTENDS Integers, Sequences, FiniteSets, TLC

VARIABLES events, domain, prediction, turn, user_input, result, message,
          storage, obj, endpoint, created, self_endpoint, http,
          nlu, loads, calls, history,
          files, this_policy, loaded_policy, persisted

vars == <<events, domain, prediction, turn, user_input, result, message,
          storage, obj, endpoint, created, self_endpoint, http,
          nlu, loads, calls, history,
          files, this_policy, loaded_policy, persisted>>

policyVars == <<events, domain, prediction, turn>>
parseVars == <<user_input, result, message>>

\* everything but the tracker and the policy, resp. but the grammar parser
createVars == <<storage, obj, endpoint, created>>

httpVars == <<self_endpoint, http>>

nluVars == <<nlu, loads, calls, history>>

persistVars == <<files, this_policy, loaded_policy, persisted>>

outsidePolicy == <<parseVars, createVars, httpVars, nluVars, persistVars>>
outsideParse == <<policyVars, createVars, httpVars, nluVars, persistVars>>
outsideCreate == <<policyVars, parseVars, httpVars, nluVars, persistVars>>
outsideHttp == <<policyVars, parseVars, createVars, nluVars, persistVars>>
outsideNlu == <<policyVars, parseVars, createVars, httpVars, persistVars>>
outsidePersist == <<policyVars, parseVars, createVars, httpVars, nluVars>>

(***************************************************************************)
(* Python's None.  None stands for an absent name (a string); NoneText     *)
(* for an absent text (a sequence of characters): no text is <<"None">>,   *)
(* since every element of a text is a single character.                    *)
(***************************************************************************)
None == "None"
NoneText == <<None>>

\* ------------------------------------------------------------------------
\* Bounds of the model
\* ------------------------------------------------------------------------

\* longest event log of a tracker
MaxEvents == 3
\* longest event log of the executed-turn scenario
MaxTurnEvents == 6

\* ------------------------------------------------------------------------
\* Names imported by mapping_policy.py
\* ------------------------------------------------------------------------
ACTION_LISTEN_NAME == "action_listen"
ACTION_RESTART_NAME == "action_restart"
ACTION_BACK_NAME == "action_back"
USER_INTENT_RESTART == "restart"
USER_INTENT_BACK == "back"

\* type(self).__name__ of a MappingPolicy instance
ClassName == <<"M","a","p","p","i","n","g","P","o","l","i","c","y">>

\* names under which an ensemble attributes an executed action
NamespacedSelf == <<"p","o","l","i","c","y","_","0","_">> \o ClassName
OtherPolicy == <<"p","o","l","i","c","y","_","1","_","K","e","r","a","s","P","o","l","i","c","y">>
\* ends with the class name, but not with "_" + class name
LookalikePolicy == <<"M","y">> \o ClassName

PolicyNames == {ClassName, NamespacedSelf, OtherPolicy, LookalikePolicy, NoneText}

\* ------------------------------------------------------------------------
\* Domain: action names (the default actions are always part of a domain)
\* and the intents' properties (intent -> its "triggers" entry, None when
\* the intent has none)
\* ------------------------------------------------------------------------
DefaultActions == <<ACTION_LISTEN_NAME, ACTION_RESTART_NAME, ACTION_BACK_NAME>>

Domains ==
  { [ action_names |-> DefaultActions \o <<"utter_greet", "utter_bye">>,
      intent_properties |-> [ greet |-> "utter_greet", bye |-> "utter_gone",
                              chitchat |-> None, restart |-> "utter_bye" ] ],
    [ action_names |-> DefaultActions \o <<"utter_bye", "utter_greet">>,
      intent_properties |-> [ greet |-> ACTION_LISTEN_NAME, bye |-> "utter_bye",
                              back |-> "utter_greet" ] ],
    [ action_names |-> DefaultActions,
      intent_properties |-> [ greet |-> None ] ] }

Intents == {"greet", "bye", "chitchat", USER_INTENT_RESTART, USER_INTENT_BACK, None}

ExecutableActions == {ACTION_LISTEN_NAME, ACTION_RESTART_NAME, "utter_greet", "utter_bye"}

\* Domain.num_actions
num_actions(dom) == Len(dom.action_names)

\* the None that index_for_action returns, among the 0-based positions
NoIndex == 0 - 1

\* Domain.index_for_action: the (0-based) position of the name, None when
\* the domain has no such action
index_for_action(dom, action_name) ==
  IF \E i \in 1..Len(dom.action_names) : dom.action_names[i] = action_name
    THEN (CHOOSE i \in 1..Len(dom.action_names) :
            /\ dom.action_names[i] = action_name
            /\ \A j \in 1..(i-1) : dom.action_names[j] # action_name) - 1
    ELSE NoIndex

\* domain.intent_properties.get(intent, {}).get("triggers")
triggers(dom, intent) ==
  IF intent \in DOMAIN dom.intent_properties
    THEN dom.intent_properties[intent]
    ELSE None

\* ------------------------------------------------------------------------
\* Tracker: an append-only event log
\* ------------------------------------------------------------------------
UserUttered(intent) == [type |-> "user", intent |-> intent]
ActionExecuted(action_name, policy) ==
  [type |-> "action", action_name |-> action_name, policy |-> policy]

RECURSIVE LastIndexOfType(_, _, _)
LastIndexOfType(log, type, i) ==
  IF i = 0 THEN 0
  ELSE IF log[i].type = type THEN i
  ELSE LastIndexOfType(log, type, i - 1)

\* the None that get_last_event_for returns, among the events
NoEvent == [type |-> None]

\* faulty variant: the oldest event of the type is returned
get_last_event_for_oldest(log, type) ==
  IF \E i \in 1..Len(log) : log[i].type = type
    THEN log[CHOOSE i \in 1..Len(log) :
               /\ log[i].type = type
               /\ \A j \in 1..(i - 1) : log[j].type # type]
    ELSE NoEvent

\* tracker.get_last_event_for(ActionExecuted)
get_last_event_for(log, type) ==
  LET i == LastIndexOfType(log, type, Len(log))
  IN IF i = 0 THEN NoEvent ELSE log[i]

\* tracker.latest_message.intent.get("name")
latest_intent(log) ==
  LET i == LastIndexOfType(log, "user", Len(log))
  IN IF i = 0 THEN None ELSE log[i].intent

\* tracker.latest_action_name
latest_action_name(log) ==
  LET i == LastIndexOfType(log, "action", Len(log))
  IN IF i = 0 THEN ACTION_LISTEN_NAME ELSE log[i].action_name

\* ------------------------------------------------------------------------
\* MappingPolicy.predict_action_probabilities
\* ------------------------------------------------------------------------

\* str.endswith
EndsWith(s, suffix) ==
  /\ Len(suffix) <= Len(s)
  /\ SubSeq(s, Len(s) - Len(suffix) + 1, Len(s)) = suffix

\* outcome of a call: a returned value or a raised exception
Returned(v) == [raised |-> None, value |-> v]
Raised(e) == [raised |-> e, value |-> <<>>]

\* faulty variant: the domain's triggers are consulted before the built-in intents
mapped_action_domain_first(dom, intent) ==
  IF triggers(dom, intent) # None THEN triggers(dom, intent)
  ELSE IF intent = USER_INTENT_RESTART THEN ACTION_RESTART_NAME
  ELSE IF intent = USER_INTENT_BACK THEN ACTION_BACK_NAME
  ELSE None

\* lines 83-88: the action mapped to the intent
mapped_action(dom, intent) ==
  IF intent = USER_INTENT_RESTART THEN ACTION_RESTART_NAME
  ELSE IF intent = USER_INTENT_BACK THEN ACTION_BACK_NAME
  ELSE triggers(dom, intent)

\* faulty variant: the entry after the action's is set
SetOne_off_by_one(vec, idx) ==
  IF idx = NoIndex THEN Raised("TypeError")
  ELSE IF idx + 2 > Len(vec) THEN Raised("IndexError")
  ELSE Returned([vec EXCEPT ![idx + 2] = 1])

\* prediction[idx] = 1 (lines 96 and 115); idx is a 0-based position
SetOne(vec, idx) ==
  IF idx = NoIndex THEN Raised("TypeError")
  ELSE Returned([vec EXCEPT ![idx + 1] = 1])

\* faulty variant: only the exact class name counts as this policy
is_own_policy_exact(policy) ==
  policy = ClassName

\* faulty variant: the suffix is matched without its leading "_"
is_own_policy_any_suffix(policy) ==
  policy = ClassName \/ EndsWith(policy, ClassName)

\* lines 105-107, for a policy name that is a string: is the executed
\* action attributed to this policy
is_own_policy(policy) ==
  policy = ClassName \/ EndsWith(policy, <<"_">> \o ClassName)

\* lines 91-96: the latest action is listen
listen_branch(dom, action, zeros) ==
  IF action # None /\ action # ""
    THEN LET idx == index_for_action(dom, action)
         IN IF idx = NoIndex THEN Returned(zeros)
            ELSE SetOne(zeros, idx)
    ELSE Returned(zeros)

\* lines 103-119: the latest action is the mapped action.  Calling
\* .action_name on None raises AttributeError; so does .endswith on a policy
\* that is None (`None == name` is False, so the right operand is evaluated).
executed_branch(log, dom, action, zeros) ==
  LET latest_action == get_last_event_for(log, "action")
  IN IF latest_action = NoEvent THEN Raised("AttributeError")
     ELSE IF latest_action.action_name # action THEN Raised("AssertionError")
     ELSE IF latest_action.policy = NoneText THEN Raised("AttributeError")
     ELSE IF is_own_policy(latest_action.policy)
       THEN SetOne(zeros, index_for_action(dom, ACTION_LISTEN_NAME))
     ELSE Returned(zeros)

\* lines 81-124
predict_action_probabilities(log, dom) ==
  LET zeros == [i \in 1..num_actions(dom) |-> 0]
      intent == latest_intent(log)
      action == mapped_action(dom, intent)
  IN IF latest_action_name(log) = ACTION_LISTEN_NAME
       THEN listen_branch(dom, action, zeros)
     ELSE IF latest_action_name(log) = action /\ action # None
       THEN executed_branch(log, dom, action, zeros)
     ELSE Returned(zeros)

\* ------------------------------------------------------------------------
\* Specification Spec: a tracker receiving events, and the policy consulted
\* on it
\* ------------------------------------------------------------------------
\* the policy has not been asked since the last event
NoPrediction == [raised |-> "not called", value |-> <<>>]

\* the parser has not been called
NoResult == [raised |-> "not called", value |-> <<>>]

\* RegexInterpreter.parse has not been called
NoMessage == [raised |-> "not called", value |-> <<>>]

ParseIdle == /\ user_input = <<>>
             /\ result = NoResult
             /\ message = NoMessage

\* NaturalLanguageInterpreter.create has not been called; EndpointConfig
\* objects are records of their url, the None given for endpoint is
\* NoEndpoint
NoCreated == [raised |-> "not called", value |-> <<>>]
NoEndpoint == [config |-> None]
NoObj == [kind |-> "NoneType"]

CreateIdle ==
  /\ storage = <<>>
  /\ obj = NoObj
  /\ endpoint = NoEndpoint
  /\ created = NoCreated

\* no call of RasaNLUHttpInterpreter.parse is in progress or has been made
HttpIdleCall ==
  [pc |-> "idle", calls |-> 0, text |-> <<>>, url |-> <<>>, requests |-> 0,
   transport |-> None, status |-> 0, body |-> NoneText,
   returned |-> [raised |-> "not called", value |-> <<>>]]

HttpIdle ==
  /\ self_endpoint = NoEndpoint
  /\ http = HttpIdleCall

\* the threads that call parse on the one RasaNLUInterpreter
Callers == {1, 2}

\* RasaNLUInterpreter has not been instantiated, and a caller that is not
\* in parse
NoInstance == [raised |-> "not called", value |-> <<>>]
NoCall ==
  [pc |-> "idle", loaded |-> 0, cap |-> [model |-> None, load |-> 0],
   returned |-> [raised |-> "not called", value |-> <<>>]]

NluIdle ==
  /\ nlu = NoInstance
  /\ loads = 0
  /\ calls = [c \in Callers |-> NoCall]
  /\ history = <<>>

\* MappingPolicy.__init__ (lines 35-38): the policy holds its priority
DefaultPriority == 3

MappingPolicy(priority) == [priority |-> priority]

\* MappingPolicy.load has not been called
NoLoaded == [path |-> None, outcome |-> [raised |-> "not called", value |-> <<>>]]

PersistIdle ==
  /\ files = <<>>
  /\ this_policy = MappingPolicy(DefaultPriority)
  /\ loaded_policy = NoLoaded
  /\ persisted = <<>>

OutsidePolicyIdle == ParseIdle /\ CreateIdle /\ HttpIdle /\ NluIdle /\ PersistIdle

Init ==
  /\ events = <<>>
  /\ domain \in Domains
  /\ prediction = NoPrediction
  /\ turn = <<>>
  /\ OutsidePolicyIdle

\* a user message with the intent is appended to the log
UserMessage(maxLen) ==
  /\ Len(events) < maxLen
  /\ \E intent \in Intents :
       events' = Append(events, UserUttered(intent))
  /\ prediction' = NoPrediction
  /\ turn' = <<>>
  /\ UNCHANGED <<domain, outsidePolicy>>

\* an action chosen elsewhere (another policy, a caller of the HTTP API) is
\* executed and logged with its attribution
ExecuteOther(maxLen) ==
  /\ Len(events) < maxLen
  /\ \E a \in ExecutableActions, p \in PolicyNames :
       events' = Append(events, ActionExecuted(a, p))
  /\ prediction' = NoPrediction
  /\ UNCHANGED <<domain, turn, outsidePolicy>>

\* the policy is asked for its prediction
Predict ==
  /\ prediction = NoPrediction
  /\ prediction' = predict_action_probabilities(events, domain)
  /\ turn' = turn
  /\ UNCHANGED <<events, domain, outsidePolicy>>

\* the action the policy voted for, None when it has no opinion
predicted_action(dom, pred) ==
  IF pred.raised # None THEN None
  ELSE IF \E i \in 1..Len(pred.value) : pred.value[i] = 1
    THEN dom.action_names[CHOOSE i \in 1..Len(pred.value) : pred.value[i] = 1]
  ELSE None

\* the ensemble executes the action the policy predicted and attributes it
\* to the policy
ExecutePredicted(maxLen) ==
  /\ Len(events) < maxLen
  /\ predicted_action(domain, prediction) # None
  /\ \E p \in {ClassName, NamespacedSelf} :
       events' = Append(events,
                        ActionExecuted(predicted_action(domain, prediction), p))
  /\ prediction' = NoPrediction
  /\ turn' = Append(turn, predicted_action(domain, prediction))
  /\ UNCHANGED <<domain, outsidePolicy>>

Next ==
  \/ UserMessage(MaxEvents)
  \/ ExecuteOther(MaxEvents)
  \/ Predict
  \/ ExecutePredicted(MaxEvents)

Spec == Init /\ [][Next]_vars

\* ------------------------------------------------------------------------
\* Specification SpecTurn: conversation turns as the message processor runs
\* them.  A user message arrives while the bot listens; the policy is asked
\* and what it predicts is executed and attributed to it, until listen is
\* executed; when the mapping policy has no opinion, another policy's action
\* is executed.
\* ------------------------------------------------------------------------
LastEvent == events[Len(events)]

\* the bot waits for the user: nothing is logged yet, or listen ran last
Listening ==
  IF events = <<>> THEN TRUE
  ELSE IF LastEvent.type = "action"
    THEN LastEvent.action_name = ACTION_LISTEN_NAME
  ELSE FALSE

\* room in the log for the two actions of a mapped turn
TurnUserMessage ==
  /\ Listening
  /\ UserMessage(MaxTurnEvents - 2)

TurnPredict ==
  /\ ~Listening
  /\ Predict

TurnExecutePredicted == ExecutePredicted(MaxTurnEvents)

\* the mapping policy voted for nothing: the ensemble's choice is another
\* policy's
TurnExecuteFallback ==
  /\ Len(events) < MaxTurnEvents
  /\ prediction # NoPrediction
  /\ prediction.raised = None
  /\ predicted_action(domain, prediction) = None
  /\ \E a \in ExecutableActions :
       events' = Append(events, ActionExecuted(a, OtherPolicy))
  /\ prediction' = NoPrediction
  /\ UNCHANGED <<domain, turn, outsidePolicy>>

NextTurn ==
  \/ TurnUserMessage
  \/ TurnPredict
  \/ TurnExecutePredicted
  \/ TurnExecuteFallback

\* the processor keeps predicting and executing until listen has run
SpecTurn ==
  /\ Init
  /\ [][NextTurn]_vars
  /\ WF_vars(TurnPredict)
  /\ WF_vars(TurnExecutePredicted)

\* ------------------------------------------------------------------------
\* Texts: sequences of characters.  Offsets are Python's (0-based, end
\* exclusive); sequence positions are 1-based.
\* ------------------------------------------------------------------------
Digits == <<"0","1","2","3","4","5","6","7","8","9">>

IsDigit(c) == \E d \in 1..10 : Digits[d] = c

DigitValue(c) == (CHOOSE d \in 1..10 : Digits[d] = c) - 1

\* the character classes of the pattern on line 126, of str.strip and of the
\* JSON decoder
InClass(class, c) ==
  CASE class = "intent" -> c \notin {"{", "@"}        \* [^{@]
    [] class = "confidence" -> IsDigit(c) \/ c = "."  \* [0-9.]
    [] class = "dot" -> c # "\n"                      \* .
    [] class = "digit" -> IsDigit(c)
    [] class = "space" -> c \in {" ", "\t", "\n", "\r", "\f"}   \* str.strip
    [] class = "jsonws" -> c \in {" ", "\t", "\n", "\r"}

\* the first position from i on whose character is not of the class
\* (Len(s) + 1 when there is none): the end of a greedy repetition
RECURSIVE Span(_, _, _)
Span(s, i, class) ==
  IF i > Len(s) THEN i
  ELSE IF InClass(class, s[i]) THEN Span(s, i + 1, class)
  ELSE i

\* the last position down from j whose character is not of the class
RECURSIVE SpanBack(_, _, _)
SpanBack(s, j, class) ==
  IF j < 1 THEN j
  ELSE IF InClass(class, s[j]) THEN SpanBack(s, j - 1, class)
  ELSE j

\* str.strip()
strip(s) ==
  LET i == Span(s, 1, "space")
      j == SpanBack(s, Len(s), "space")
  IN IF i > j THEN <<>> ELSE SubSeq(s, i, j)

\* str.startswith
StartsWith(s, prefix) ==
  /\ Len(prefix) <= Len(s)
  /\ SubSeq(s, 1, Len(prefix)) = prefix

\* ------------------------------------------------------------------------
\* Floats: the decimal n / d, d a power of ten, in lowest such terms
\* ------------------------------------------------------------------------
RECURSIVE Reduce(_, _)
Reduce(n, d) ==
  IF d > 1 /\ n % 10 = 0 THEN Reduce(n \div 10, d \div 10)
  ELSE [n |-> n, d |-> d]

Float(n, d) == Reduce(n, d)

\* the number written by a run of digits, read after the digits of acc
RECURSIVE DigitsValue(_, _)
DigitsValue(s, acc) ==
  IF s = <<>> THEN acc
  ELSE DigitsValue(Tail(s), 10 * acc + DigitValue(Head(s)))

RECURSIVE Pow10(_)
Pow10(k) == IF k = 0 THEN 1 ELSE 10 * Pow10(k - 1)

\* float(s) for a text of digits and dots (what group 2 of the pattern can
\* hold after its "@"): digits with at most one dot and at least one digit;
\* anything else is a ValueError
float(s) ==
  LET i == Span(s, 1, "digit")                \* end of the integer digits
      hasDot == i <= Len(s) /\ s[i] = "."
      j == IF hasDot THEN Span(s, i + 1, "digit") ELSE i
      whole == SubSeq(s, 1, i - 1)
      frac == IF hasDot THEN SubSeq(s, i + 1, j - 1) ELSE <<>>
  IN IF j = Len(s) + 1 /\ Len(whole) + Len(frac) > 0
       THEN Returned(Float(DigitsValue(whole \o frac, 0), Pow10(Len(frac))))
       ELSE Raised("ValueError")


\* ------------------------------------------------------------------------
\* json.loads on texts without backslash escapes.  A decoded value is
\* [kind, text, items]: its kind ("scalar", "list", "dict"), its JSON text
\* without insignificant whitespace, and for a list the texts of its
\* elements.  A decoded object is a sequence of [key, val] in the order the
\* keys first occur; a repeated key keeps its place and takes the later value
\* (dict semantics).
\* ------------------------------------------------------------------------
At(s, i) == IF i >= 1 /\ i <= Len(s) THEN s[i] ELSE None

\* the outcome of decoding at a position: whether a value was read, the
\* position after it, the value, and for an object its items
JsonFail ==
  [ok |-> FALSE, pos |-> 0, val |-> [kind |-> None, text |-> <<>>, items |-> <<>>],
   pairs |-> <<>>]

JsonOk(pos, kind, text, items) ==
  [ok |-> TRUE, pos |-> pos, val |-> [kind |-> kind, text |-> text, items |-> items],
   pairs |-> <<>>]

Literals == << <<"t","r","u","e">>, <<"f","a","l","s","e">>, <<"n","u","l","l">>,
               <<"N","a","N">>, <<"I","n","f","i","n","i","t","y">>,
               <<"-","I","n","f","i","n","i","t","y">> >>

LiteralAt(s, i) ==
  IF \E k \in 1..Len(Literals) : StartsWith(SubSeq(s, i, Len(s)), Literals[k])
    THEN LET k == CHOOSE k \in 1..Len(Literals) :
                    StartsWith(SubSeq(s, i, Len(s)), Literals[k])
         IN JsonOk(i + Len(Literals[k]), "scalar", Literals[k], <<>>)
    ELSE JsonFail

\* the end of a string's characters: the position of the closing quote, 0
\* when a control character, a backslash or the end of the text comes first
RECURSIVE StringEnd(_, _)
StringEnd(s, i) ==
  IF i > Len(s) THEN 0
  ELSE IF s[i] = "\"" THEN i
  ELSE IF s[i] \in {"\\", "\n", "\t", "\r", "\f"} THEN 0
  ELSE StringEnd(s, i + 1)

\* a string starting at its opening quote
ParseString(s, i) ==
  IF At(s, i) # "\"" THEN JsonFail
  ELSE LET j == StringEnd(s, i + 1)
       IN IF j = 0 THEN JsonFail
          ELSE JsonOk(j + 1, "scalar", SubSeq(s, i, j), <<>>)

\* NUMBER_RE: -?(0|[1-9][0-9]*)(\.[0-9]+)?([eE][-+]?[0-9]+)?
ParseNumber(s, i) ==
  LET a == IF At(s, i) = "-" THEN i + 1 ELSE i
      b == IF At(s, a) = "0" THEN a + 1 ELSE Span(s, a, "digit")
      c == IF At(s, b) = "." /\ IsDigit(At(s, b + 1))
             THEN Span(s, b + 1, "digit") ELSE b
      e == IF At(s, c) \in {"e", "E"}
             THEN (IF At(s, c + 1) \in {"+", "-"} THEN c + 2 ELSE c + 1)
             ELSE 0
      d == IF e > 0 /\ IsDigit(At(s, e)) THEN Span(s, e, "digit") ELSE c
  IN IF b = a THEN JsonFail
     ELSE JsonOk(d, "scalar", SubSeq(s, i, d - 1), <<>>)

RECURSIVE JoinTexts(_)
JoinTexts(texts) ==
  IF texts = <<>> THEN <<>>
  ELSE IF Len(texts) = 1 THEN texts[1]
  ELSE texts[1] \o <<",">> \o JoinTexts(Tail(texts))

\* dict[key] = val
RECURSIVE DictPut(_, _, _)
DictPut(pairs, key, val) ==
  IF pairs = <<>> THEN <<[key |-> key, val |-> val]>>
  ELSE IF pairs[1].key = key THEN <<[key |-> key, val |-> val]>> \o Tail(pairs)
  ELSE <<pairs[1]>> \o DictPut(Tail(pairs), key, val)

\* the characters of a string between its quotes
Unquote(text) == SubSeq(text, 2, Len(text) - 1)

PairTexts(pairs) ==
  [k \in 1..Len(pairs) |->
     <<"\"">> \o pairs[k].key \o <<"\"", ":">> \o pairs[k].val.text]

DictOk(pos, pairs) ==
  [ok |-> TRUE, pos |-> pos,
   val |-> [kind |-> "dict",
            text |-> <<"{">> \o JoinTexts(PairTexts(pairs)) \o <<"}">>,
            items |-> <<>>],
   pairs |-> pairs]

\* the scanner of the decoder, at position i (after any whitespace):
\*   "value"     a value;
\*   "elements"  the elements of an array from one of them on, up to its
\*               "]", acc the texts of the elements before;
\*   "members"   the members of an object from one of its keys on, up to
\*               its "}", acc the items before.
RECURSIVE Scan(_, _, _, _)
Scan(mode, s, i, acc) ==
  IF mode = "value" THEN
    LET c == At(s, i)
        j == Span(s, i + 1, "jsonws")
        number == ParseNumber(s, i)
    IN IF c = "{"
         THEN (IF At(s, j) = "}" THEN DictOk(j + 1, <<>>)
               ELSE Scan("members", s, j, <<>>))
       ELSE IF c = "["
         THEN (IF At(s, j) = "]" THEN JsonOk(j + 1, "list", <<"[", "]">>, <<>>)
               ELSE Scan("elements", s, j, <<>>))
       ELSE IF c = "\"" THEN ParseString(s, i)
       ELSE IF (c = "-" \/ IsDigit(c)) /\ number.ok THEN number
       ELSE LiteralAt(s, i)
  ELSE IF mode = "elements" THEN
    LET v == Scan("value", s, i, <<>>)
        k == Span(s, v.pos, "jsonws")
        all == Append(acc, v.val.text)
    IN IF ~v.ok THEN JsonFail
       ELSE IF At(s, k) = ","
         THEN Scan("elements", s, Span(s, k + 1, "jsonws"), all)
       ELSE IF At(s, k) = "]"
         THEN JsonOk(k + 1, "list", <<"[">> \o JoinTexts(all) \o <<"]">>, all)
       ELSE JsonFail
  ELSE
    LET key == ParseString(s, i)
        colon == Span(s, key.pos, "jsonws")
        v == Scan("value", s, Span(s, colon + 1, "jsonws"), <<>>)
        k == Span(s, v.pos, "jsonws")
        all == DictPut(acc, Unquote(key.val.text), v.val)
    IN IF ~key.ok THEN JsonFail
       ELSE IF At(s, colon) # ":" THEN JsonFail
       ELSE IF ~v.ok THEN JsonFail
       ELSE IF At(s, k) = ","
         THEN Scan("members", s, Span(s, k + 1, "jsonws"), all)
       ELSE IF At(s, k) = "}" THEN DictOk(k + 1, all)
       ELSE JsonFail

\* json.loads(s): [raised, isdict, pairs].  The whole text must be one value
\* between optional whitespace, or json.JSONDecodeError is raised.
decoded(s, v) ==
  IF ~v.ok THEN [raised |-> "JSONDecodeError", isdict |-> FALSE, pairs |-> <<>>]
  ELSE IF Span(s, v.pos, "jsonws") # Len(s) + 1
    THEN [raised |-> "JSONDecodeError", isdict |-> FALSE, pairs |-> <<>>]
  ELSE [raised |-> None, isdict |-> v.val.kind = "dict", pairs |-> v.pairs]

json_loads(s) == decoded(s, Scan("value", s, Span(s, 1, "jsonws"), <<>>))

\* ------------------------------------------------------------------------
\* RegexInterpreter (rasa/core/interpreter.py)
\* ------------------------------------------------------------------------
INTENT_MESSAGE_PREFIX == <<"/">>

\* RegexInterpreter.allowed_prefixes
allowed_prefixes == INTENT_MESSAGE_PREFIX

\* a group that did not take part in the match: m[k] is None, m.start(k)
\* and m.end(k) are -1
NoGroup == [text |-> NoneText, start |-> 0 - 1, end |-> 0 - 1]

Group(s, from, to) == [text |-> SubSeq(s, from, to - 1), start |-> from - 1, end |-> to - 1]

\* the end of an optional group at position from: a lead character and then
\* one or more characters of the class, as many as there are; from itself
\* when there is no such group
OptionalGroupEnd(s, from, lead, class) ==
  IF At(s, from) = lead /\ Span(s, from + 1, class) > from + 1
    THEN Span(s, from + 1, class)
    ELSE from

\* the groups of a match: group 1 is s[i..e1), group 2 s[e1..e2), group 3
\* s[e2..e3); an empty optional group did not take part
MatchGroups(s, i, e1, e2, e3) ==
  [matched |-> e1 > i,
   g1 |-> Group(s, i, e1),
   g2 |-> IF e2 > e1 THEN Group(s, e1, e2) ELSE NoGroup,
   g3 |-> IF e3 > e2 THEN Group(s, e2, e3) ELSE NoGroup]

MatchAfterConfidence(s, i, e1, e2) ==
  MatchGroups(s, i, e1, e2, OptionalGroupEnd(s, e2, "{", "dot"))

MatchAfterIntent(s, i, e1) ==
  MatchAfterConfidence(s, i, e1, OptionalGroupEnd(s, e1, "@", "confidence"))

\* the match of "([^{@]+)(@[0-9.]+)?([{].+)?" with group 1 starting at
\* position i.  Every repetition is greedy and the two optional groups can
\* always be skipped, so each takes the longest run there is and none is
\* ever given back.
MatchFrom(s, i) == MatchAfterIntent(s, i, Span(s, i, "intent"))

\* re.search("^[/]?([^{@]+)(@[0-9.]+)?([{].+)?", user_input) (line 126): the
\* pattern is anchored at the start; the optional prefix is taken when
\* group 1 then matches, and otherwise given back, so that a "/" is then the
\* first character of group 1
search(s) ==
  IF StartsWith(s, allowed_prefixes) /\ Span(s, 2, "intent") > 2
    THEN MatchFrom(s, 2)
    ELSE MatchFrom(s, 1)

\* faulty variant: a list of values is kept as one value
create_entities_no_flatten(pairs, sidx, eidx, k) ==
  <<[entity |-> pairs[k].key, start |-> sidx, end |-> eidx,
     value |-> pairs[k].val.text]>>

\* lines 67-77: the entities of the k-th item of the dict
create_entities_of(pairs, sidx, eidx, k) ==
  LET vs == IF pairs[k].val.kind = "list" THEN pairs[k].val.items
            ELSE <<pairs[k].val.text>>
  IN [n \in 1..Len(vs) |->
        [entity |-> pairs[k].key, start |-> sidx, end |-> eidx, value |-> vs[n]]]

\* RegexInterpreter._create_entities (lines 61-78)
RECURSIVE create_entities_from(_, _, _, _)
create_entities_from(pairs, sidx, eidx, k) ==
  IF k > Len(pairs) THEN <<>>
  ELSE create_entities_of(pairs, sidx, eidx, k)
         \o create_entities_from(pairs, sidx, eidx, k + 1)

create_entities(parsed_entities, sidx, eidx) ==
  create_entities_from(parsed_entities, sidx, eidx, 1)

\* faulty variant: a decoding error is not caught
parse_parameters_no_except(entity_str, sidx, eidx) ==
  IF entity_str = NoneText THEN Returned(<<>>)
  ELSE IF strip(entity_str) = <<>> THEN Returned(<<>>)
  ELSE LET parsed_entities == json_loads(entity_str)
       IN IF parsed_entities.raised # None THEN Raised(parsed_entities.raised)
          ELSE IF parsed_entities.isdict
            THEN Returned(create_entities(parsed_entities.pairs, sidx, eidx))
          ELSE Raised("Exception")

\* lines 90-100, parsed_entities the outcome of json.loads
entities_of(parsed_entities, sidx, eidx) ==
  IF parsed_entities.raised # None THEN Returned(<<>>)
  ELSE IF parsed_entities.isdict
    THEN Returned(create_entities(parsed_entities.pairs, sidx, eidx))
  ELSE Returned(<<>>)

\* RegexInterpreter._parse_parameters (lines 80-100): whatever is raised
\* while decoding, and the exception for a value that is no dict, is caught
\* and gives []
parse_parameters(entity_str, sidx, eidx) ==
  IF entity_str = NoneText THEN Returned(<<>>)
  ELSE IF strip(entity_str) = <<>> THEN Returned(<<>>)
  ELSE entities_of(json_loads(entity_str), sidx, eidx)

\* faulty variant: the ValueError of float() is not caught
parse_confidence_no_except(confidence_str) ==
  IF confidence_str = NoneText THEN Returned(Float(1, 1))
  ELSE float(Tail(strip(confidence_str)))

\* RegexInterpreter._parse_confidence (lines 102-113)
parse_confidence(confidence_str) ==
  IF confidence_str = NoneText THEN Returned(Float(1, 1))
  ELSE LET f == float(Tail(strip(confidence_str)))
       IN IF f.raised # None THEN Returned(Float(0, 1)) ELSE f

\* the triple returned by extract_intent_and_entities
Triple(event_name, confidence, entities) ==
  [intent |-> event_name, confidence |-> confidence, entities |-> entities]

\* line 134: the triple is returned once both parts are parsed; an
\* exception of either call would leave the function
return_triple(event_name, confidence, entities) ==
  IF confidence.raised # None THEN confidence
  ELSE IF entities.raised # None THEN entities
  ELSE Returned(Triple(event_name, confidence.value, entities.value))

\* lines 127-137, m the match
extract_from_match(m) ==
  IF m.matched
    THEN return_triple(strip(m.g1.text),
                       parse_confidence(m.g2.text),
                       parse_parameters(m.g3.text, m.g3.start, m.g3.end))
    ELSE Returned(Triple(NoneText, Float(0, 1), <<>>))

\* RegexInterpreter.extract_intent_and_entities (lines 118-137)
extract_intent_and_entities(input) == extract_from_match(search(input))

\* faulty variant: the prefix is put in front of every text
message_text_always_prefixed(text) == INTENT_MESSAGE_PREFIX \o text

\* RegexInterpreter._starts_with_intent_prefix (lines 115-116): the text
\* starts with one of the characters of the prefix
starts_with_intent_prefix(text) ==
  \E k \in 1..Len(allowed_prefixes) : StartsWith(text, <<allowed_prefixes[k]>>)

\* lines 149-152
message_text(text) ==
  IF starts_with_intent_prefix(text) THEN text
  ELSE INTENT_MESSAGE_PREFIX \o text

\* lines 154-159: the returned message
Message(text, triple) ==
  [text |-> text,
   intent |-> [name |-> triple.intent, confidence |-> triple.confidence],
   intent_ranking |-> <<[name |-> triple.intent, confidence |-> triple.confidence]>>,
   entities |-> triple.entities]

\* lines 147-159, extracted the outcome of line 147
parse_from(text, extracted) ==
  IF extracted.raised # None THEN extracted
  ELSE Returned(Message(message_text(text), extracted.value))

\* RegexInterpreter.parse (lines 139-159)
parse(text) == parse_from(text, extract_intent_and_entities(text))

\* ------------------------------------------------------------------------
\* Specification SpecParse: a line is given to the grammar parser
\* ------------------------------------------------------------------------

\* longest line made of any characters of the alphabet
MaxLen == 4
\* longest text of any characters in front of one of the entity texts
MaxHeadLen == 2

\* every character the pattern, float() or str.strip treats differently
Alphabet == {"/", "g", " ", "@", "1", ".", "{", "}"}

Strings(n) == UNION {[1..k -> Alphabet] : k \in 0..n}

\* entity parts:
\*   {"a":1}                an object with one number
\*   {"a":[1,2]}            a key mapping to a list of two values
\*   {"a":1,"b":[2,3]}      two keys, the second a list
\*   {"a":1,"a":2}          a repeated key
\*   {"a":[]}               an empty list
\*   {"a": "x"}             whitespace between the tokens and after the object
\*   {"a":{"b":1}}          a nested object as value
\*   {"a":1}x               text after the object
\*   {"a":1                 an object that is not closed
\*   {a:1}                  a key without quotes
\*   {"a":[1,]}             a trailing comma
\*   {"a":1}\nx             a second line after the object
\*   {a\nx                  a broken object and a second line
EntityTexts ==
  { <<"{","\"","a","\"",":","1","}">>,
    <<"{","\"","a","\"",":","[","1",",","2","]","}">>,
    <<"{","\"","a","\"",":","1",",","\"","b","\"",":","[","2",",","3","]","}">>,
    <<"{","\"","a","\"",":","1",",","\"","a","\"",":","2","}">>,
    <<"{","\"","a","\"",":","[","]","}">>,
    <<"{","\"","a","\"",":"," ","\"","x","\"","}"," ">>,
    <<"{","\"","a","\"",":","{","\"","b","\"",":","1","}","}">>,
    <<"{","\"","a","\"",":","1","}","x">>,
    <<"{","\"","a","\"",":","1">>,
    <<"{","a",":","1","}">>,
    <<"{","\"","a","\"",":","[","1",",","]","}">>,
    <<"{","\"","a","\"",":","1","}","\n","x">>,
    <<"{","a","\n","x">> }

\* intent and confidence parts: greet, /greet, greet@0.95, greet@notanumber, greet@1.2.3,
\*   /greet@5, greet@12.5, g@.,  g @1
HeadTexts ==
  { <<"g","r","e","e","t">>,
    <<"/","g","r","e","e","t">>,
    <<"g","r","e","e","t","@","0",".","9","5">>,
    <<"g","r","e","e","t","@","n","o","t","a","n","u","m","b","e","r">>,
    <<"g","r","e","e","t","@","1",".","2",".","3">>,
    <<"/","g","r","e","e","t","@","5">>,
    <<"g","r","e","e","t","@","1","2",".","5">>,
    <<"g","@",".">>,
    <<" ","g"," ","@","1">> }

Inputs ==
  Strings(MaxLen)
    \cup {head \o entity : head \in Strings(MaxHeadLen) \cup HeadTexts,
                           entity \in EntityTexts \cup {<<>>}}

PolicyIdle ==
  /\ events = <<>>
  /\ domain = [action_names |-> DefaultActions, intent_properties |-> [greet |-> None]]
  /\ prediction = NoPrediction
  /\ turn = <<>>

OutsideParseIdle == PolicyIdle /\ CreateIdle /\ HttpIdle /\ NluIdle /\ PersistIdle

InitParse ==
  /\ user_input \in Inputs
  /\ result = NoResult
  /\ message = NoMessage
  /\ OutsideParseIdle

ExtractIntentAndEntities ==
  /\ result.raised = "not called"
  /\ result' = extract_intent_and_entities(user_input)
  /\ UNCHANGED <<user_input, message, outsideParse>>

\* RegexInterpreter.parse is called on the line
Parse ==
  /\ message.raised = "not called"
  /\ message' = parse(user_input)
  /\ UNCHANGED <<user_input, result, outsideParse>>

\* the text of the returned message is given to parse as the next line
ParseReturnedText ==
  /\ message.raised = None
  /\ message.value.text # user_input
  /\ user_input' = message.value.text
  /\ result' = NoResult
  /\ message' = parse(message.value.text)
  /\ UNCHANGED outsideParse

NextParse ==
  \/ ExtractIntentAndEntities
  \/ Parse
  \/ ParseReturnedText

SpecParse == InitParse /\ [][NextParse]_vars

\* ------------------------------------------------------------------------
\* Model locations: what a path names on disk.  "model" is a directory
\* holding a trained NLU model, "other" a file or directory that holds none,
\* "missing" a path that does not exist.
\* ------------------------------------------------------------------------
Paths == {"models/nlu", "models/current"}

StorageStates == {"model", "other", "missing"}

\* os.path.exists
exists(store, path) == store[path] # "missing"

\* the capability produced by the k-th call of Interpreter.load
Capability(path, k) == [model |-> path, load |-> k]

\* the None of self.interpreter
NoCapability == [model |-> None, load |-> 0]

\* rasa.nlu.model.Interpreter.load, as its k-th call: a new capability for
\* the model at the path, an error when the path holds no model
Interpreter_load(store, path, k) ==
  IF store[path] = "model" THEN Returned(Capability(path, k))
  ELSE Raised("load failure")

\* ------------------------------------------------------------------------
\* The interpreter variants and NaturalLanguageInterpreter.create
\* ------------------------------------------------------------------------

EndpointConfig(url) == [url |-> url]

\* http://nlu and http://nlu/
UrlWithoutSlash == <<"h","t","t","p",":","/","/","n","l","u">>
UrlWithSlash == UrlWithoutSlash \o <<"/">>

\* RegexInterpreter()
NewRegexInterpreter ==
  [kind |-> "interpreter", variant |-> "RegexInterpreter", id |-> "new"]

\* constants.DEFAULT_SERVER_URL: http://localhost:5005
DEFAULT_SERVER_URL == <<"h","t","t","p",":","/","/","l","o","c","a","l","h","o","s","t",":","5","0","0","5">>

\* RasaNLUHttpInterpreter.__init__ (lines 163-167), for a given endpoint
NewRasaNLUHttpInterpreter(ep) ==
  [kind |-> "interpreter", variant |-> "RasaNLUHttpInterpreter", id |-> "new",
   endpoint |-> IF ep # NoEndpoint THEN ep ELSE EndpointConfig(DEFAULT_SERVER_URL)]

\* the fields of a RasaNLUInterpreter
RasaNLUInterpreter(model_directory, lazy_init, interpreter) ==
  [kind |-> "interpreter", variant |-> "RasaNLUInterpreter", id |-> "new",
   model_directory |-> model_directory, lazy_init |-> lazy_init,
   interpreter |-> interpreter]

\* lines 237-240 and 256-259, loaded the outcome of Interpreter.load: an
\* error of the load leaves the constructor
init_from_load(model_directory, loaded) ==
  IF loaded.raised # None THEN loaded
  ELSE Returned(RasaNLUInterpreter(model_directory, FALSE, loaded.value))

\* RasaNLUInterpreter.__init__ (lines 227-240); k numbers the load
NewRasaNLUInterpreter(store, model_directory, lazy_init, k) ==
  IF ~lazy_init
    THEN init_from_load(model_directory, Interpreter_load(store, model_directory, k))
    ELSE Returned(RasaNLUInterpreter(model_directory, TRUE, NoCapability))

\* NaturalLanguageInterpreter.create (lines 29-53)
create(store, o, ep) ==
  IF o.kind = "interpreter" THEN Returned(o)
  ELSE IF o.kind # "str" THEN Returned(NewRegexInterpreter)
  ELSE IF ep = NoEndpoint
    THEN (IF exists(store, o.path)
            THEN NewRasaNLUInterpreter(store, o.path, FALSE, 1)
            ELSE Returned(NewRegexInterpreter))
  ELSE Returned(NewRasaNLUHttpInterpreter(ep))

\* ------------------------------------------------------------------------
\* Specification SpecCreate: the factory is called with an object and an
\* endpoint configuration
\* ------------------------------------------------------------------------
Endpoints == {NoEndpoint, EndpointConfig(UrlWithoutSlash), EndpointConfig(UrlWithSlash)}

\* interpreter instances that exist before the call
GivenInterpreters ==
  { [kind |-> "interpreter", variant |-> "RegexInterpreter", id |-> "given"],
    [kind |-> "interpreter", variant |-> "RasaNLUHttpInterpreter", id |-> "given",
     endpoint |-> EndpointConfig(UrlWithSlash)],
    [kind |-> "interpreter", variant |-> "RasaNLUInterpreter", id |-> "given",
     model_directory |-> "models/nlu", lazy_init |-> TRUE,
     interpreter |-> NoCapability] }

\* what create can be given as obj: an interpreter, None, a value that is
\* no string (a number, a pathlib.Path), a string
Objects ==
  GivenInterpreters
    \cup {NoObj, [kind |-> "int"], [kind |-> "Path"]}
    \cup {[kind |-> "str", path |-> path] : path \in Paths}

InitCreate ==
  /\ storage \in [Paths -> StorageStates]
  /\ obj \in Objects
  /\ endpoint \in Endpoints
  /\ created = NoCreated
  /\ PolicyIdle /\ ParseIdle /\ HttpIdle /\ NluIdle /\ PersistIdle

Create ==
  /\ created.raised = "not called"
  /\ created' = create(storage, obj, endpoint)
  /\ UNCHANGED <<storage, obj, endpoint, outsideCreate>>

NextCreate == Create

SpecCreate == InitCreate /\ [][NextCreate]_vars

\* ------------------------------------------------------------------------
\* RasaNLUHttpInterpreter.parse: one call is the request, the response and
\* the reading of its body
\* ------------------------------------------------------------------------

\* most calls of parse made on the instance
MaxHttpCalls == 2

\* Python's None as a decoded value: what the JSON text null decodes to
HttpNone == [json |-> <<"n","u","l","l">>]

\* line 179-183
default_return ==
  [intent |-> [name |-> <<>>, confidence |-> Float(0, 1)],
   entities |-> <<>>,
   text |-> <<>>]

\* bodies of a response: a parsed message, the JSON text null, a text that
\* is no JSON, and a body whose reading fails
MessageBody == <<"{","\"","i","n","t","e","n","t","\"",":","{","\"","n","a","m","e","\"",":","\"","g","r","e","e","t","\"",",","\"","c","o","n","f","i","d","e","n","c","e","\"",":","0",".","9","}",",","\"","e","n","t","i","t","i","e","s","\"",":","[","]",",","\"","t","e","x","t","\"",":","\"","h","i","\"","}">>
NullBody == <<"n","u","l","l">>
HtmlBody == <<"<","h","t","m","l",">">>
ReadFailure == <<"read failure">>

Bodies == {MessageBody, NullBody, HtmlBody, ReadFailure}

Statuses == {200, 404, 500}

\* what session.post can give: a response, or an exception of the transport
TransportOutcomes == {"response", "connection error", "timeout"}

\* json.loads as resp.json() uses it: the decoded value
decoded_value(s, v) ==
  IF ~v.ok THEN Raised("JSONDecodeError")
  ELSE IF Span(s, v.pos, "jsonws") # Len(s) + 1 THEN Raised("JSONDecodeError")
  ELSE Returned([json |-> v.val.text])

json_value(s) == decoded_value(s, Scan("value", s, Span(s, 1, "jsonws"), <<>>))

\* lines 215-220: a 200 response is decoded and returned; of any other
\* response the text is read for the log and None is returned
read_response(status, body) ==
  IF body = ReadFailure THEN Raised("ClientPayloadError")
  ELSE IF status = 200 THEN json_value(body)
  ELSE Returned(HttpNone)

\* faulty variant: an exception raised while the response is read is not caught
handle_response_no_except(status, body) == read_response(status, body)

\* lines 212-223 once there is a response: whatever is raised while it is
\* read is caught and gives None
handle_response(status, body) ==
  IF read_response(status, body).raised # None THEN Returned(HttpNone)
  ELSE read_response(status, body)

\* lines 221-223: the transport raised
handle_transport_failure == Returned(HttpNone)

\* lines 184-186: parse returns the result, or the default for None
parse_return(res) ==
  IF res.raised # None THEN res
  ELSE IF res.value = HttpNone THEN Returned(default_return)
  ELSE res

\* lines 206-209
parse_url(ep) ==
  IF EndsWith(ep.url, <<"/">>) THEN ep.url \o <<"m","o","d","e","l","/","p","a","r","s","e">>
  ELSE ep.url \o <<"/","m","o","d","e","l","/","p","a","r","s","e">>

\* the instances: made by __init__ from no endpoint or from a configuration
\* with or without a url
HttpEndpoints ==
  {NewRasaNLUHttpInterpreter(ep).endpoint :
     ep \in Endpoints \cup {EndpointConfig(NoneText)}}

\* texts given to parse: hi, /greet and the empty text
HttpTexts == {<<"h","i">>, <<"/","g","r","e","e","t">>, <<>>}

InitHttp ==
  /\ self_endpoint \in HttpEndpoints
  /\ http = HttpIdleCall
  /\ PolicyIdle /\ ParseIdle /\ CreateIdle /\ NluIdle /\ PersistIdle

\* lines 169-184 and 196-209: parse is called; up to the request.  Without
\* an endpoint (line 198) there is no request; a url that is None makes
\* line 206 raise
HttpStartOf(call, ep) ==
  IF ep = NoEndpoint
    THEN [call EXCEPT !.pc = "done", !.returned = parse_return(Returned(HttpNone))]
  ELSE IF ep.url = NoneText
    THEN [call EXCEPT !.pc = "done", !.returned = Raised("AttributeError")]
  ELSE [call EXCEPT !.pc = "post", !.url = parse_url(ep)]

HttpParse ==
  /\ http.pc \in {"idle", "done"}
  /\ http.calls < MaxHttpCalls
  /\ \E text \in HttpTexts :
       http' = HttpStartOf([HttpIdleCall EXCEPT !.calls = http.calls + 1,
                                                !.text = text],
                           self_endpoint)
  /\ UNCHANGED <<self_endpoint, outsideHttp>>

\* line 214: the request is posted
Post ==
  /\ http.pc = "post"
  /\ \E outcome \in TransportOutcomes, status \in Statuses :
       http' = IF outcome = "response"
                 THEN [http EXCEPT !.pc = "response", !.requests = @ + 1,
                                   !.transport = outcome, !.status = status]
                 ELSE [http EXCEPT !.pc = "done", !.requests = @ + 1,
                                   !.transport = outcome,
                                   !.returned = parse_return(handle_transport_failure)]
  /\ UNCHANGED <<self_endpoint, outsideHttp>>

\* lines 215-223 and 186: the response is read and parse returns
ReadResponse ==
  /\ http.pc = "response"
  /\ \E body \in Bodies :
       http' = [http EXCEPT !.pc = "done", !.body = body,
                            !.returned = parse_return(handle_response(http.status, body))]
  /\ UNCHANGED <<self_endpoint, outsideHttp>>

NextHttp ==
  \/ HttpParse
  \/ Post
  \/ ReadResponse

SpecHttp == InitHttp /\ [][NextHttp]_vars

\* ------------------------------------------------------------------------
\* RasaNLUInterpreter: construction and parse calls.  A call of parse is
\* followed statement by statement: the test of line 252, the call of
\* Interpreter.load and the assignment of its result (line 259), and the
\* parse of the loaded capability (line 254).
\* ------------------------------------------------------------------------

\* most calls of parse started on the instance
MaxParseCalls == 3

\* the instance, once constructed
Instance == nlu.value

Constructed == nlu.raised = None

InParse(c) == calls[c].pc \notin {"idle", "done"}

\* calls of parse started so far
Started == Len(history) + Cardinality({c \in Callers : InParse(c)})

InitNlu ==
  /\ storage \in [Paths -> StorageStates]
  /\ obj = NoObj
  /\ endpoint = NoEndpoint
  /\ created = NoCreated
  /\ NluIdle
  /\ PolicyIdle /\ ParseIdle /\ HttpIdle /\ PersistIdle

\* RasaNLUInterpreter.__init__ (lines 227-240)
Construct ==
  /\ nlu.raised = "not called"
  /\ \E model_directory \in Paths, lazy_init \in BOOLEAN :
       /\ nlu' = NewRasaNLUInterpreter(storage, model_directory, lazy_init, loads + 1)
       /\ loads' = IF lazy_init THEN loads ELSE loads + 1
  /\ UNCHANGED <<calls, history, outsideNlu>>

\* a caller enters parse (line 242)
ParseCall(c) ==
  /\ Constructed
  /\ ~InParse(c)
  /\ Started < MaxParseCalls
  /\ calls' = [calls EXCEPT ![c] = [NoCall EXCEPT !.pc = "check"]]
  /\ UNCHANGED <<nlu, loads, history, outsideNlu>>

\* faulty variant: a lazy instance loads in every call
needs_load_whenever_lazy(instance) == instance.lazy_init

\* line 252
needs_load(instance) ==
  instance.lazy_init /\ instance.interpreter = NoCapability

\* line 252: the test
Check(c) ==
  /\ calls[c].pc = "check"
  /\ calls' = [calls EXCEPT ![c].pc = IF needs_load(Instance) THEN "load" ELSE "parse"]
  /\ UNCHANGED <<nlu, loads, history, outsideNlu>>

\* the record of a finished call
Finished(c, call) ==
  [caller |-> c, loaded |-> call.loaded, returned |-> call.returned]

\* faulty variant: a failed load is swallowed and the call goes on to parse
AfterLoad_swallowing_failure(call, loaded) ==
  IF loaded.raised = None
    THEN [call EXCEPT !.pc = "assign", !.loaded = @ + 1, !.cap = loaded.value]
    ELSE [call EXCEPT !.pc = "parse", !.loaded = @ + 1]

\* the call after Interpreter.load has returned or raised
AfterLoad(call, loaded) ==
  IF loaded.raised = None
    THEN [call EXCEPT !.pc = "assign", !.loaded = @ + 1, !.cap = loaded.value]
    ELSE [call EXCEPT !.pc = "done", !.loaded = @ + 1, !.returned = loaded]

\* lines 253 and 259: Interpreter.load(self.model_directory) is called; its
\* error leaves parse
Load(c) ==
  /\ calls[c].pc = "load"
  /\ loads' = loads + 1
  /\ calls' = [calls EXCEPT ![c] =
                 AfterLoad(@, Interpreter_load(storage, Instance.model_directory, loads + 1))]
  /\ history' = IF calls'[c].pc = "done"
                  THEN Append(history, Finished(c, calls'[c]))
                  ELSE history
  /\ UNCHANGED <<nlu, outsideNlu>>

\* line 259: self.interpreter = the capability the load returned
Assign(c) ==
  /\ calls[c].pc = "assign"
  /\ nlu' = [nlu EXCEPT !.value.interpreter = calls[c].cap]
  /\ calls' = [calls EXCEPT ![c].pc = "parse"]
  /\ UNCHANGED <<loads, history, outsideNlu>>

\* self.interpreter.parse(text, message_id): the message of the capability;
\* None has no parse
capability_parse(interpreter) ==
  IF interpreter = NoCapability THEN Raised("AttributeError")
  ELSE Returned([parsed_by |-> interpreter])

\* line 254
ParseText(c) ==
  /\ calls[c].pc = "parse"
  /\ calls' = [calls EXCEPT ![c].pc = "done",
                            ![c].returned = capability_parse(Instance.interpreter)]
  /\ history' = Append(history, Finished(c, calls'[c]))
  /\ UNCHANGED <<nlu, loads, outsideNlu>>

\* parse calls from several threads: their statements interleave
NextLazy ==
  \/ Construct
  \/ \E c \in Callers : ParseCall(c)
  \/ \E c \in Callers : Check(c)
  \/ \E c \in Callers : Load(c)
  \/ \E c \in Callers : Assign(c)
  \/ \E c \in Callers : ParseText(c)

SpecLazy == InitNlu /\ [][NextLazy]_vars

\* parse calls one after another: a call starts when no call is in progress
NoCallInProgress == \A c \in Callers : ~InParse(c)

NextLoadOnce ==
  \/ Construct
  \/ \E c \in Callers : NoCallInProgress /\ ParseCall(c)
  \/ \E c \in Callers : Check(c)
  \/ \E c \in Callers : Load(c)
  \/ \E c \in Callers : Assign(c)
  \/ \E c \in Callers : ParseText(c)

SpecLoadOnce == InitNlu /\ [][NextLoadOnce]_vars

\* ------------------------------------------------------------------------
\* MappingPolicy.persist and MappingPolicy.load.  A path is missing, or a
\* directory that may hold the file mapping_policy.json (meta is its text,
\* None when there is no such file).
\* ------------------------------------------------------------------------

\* priorities range over -MaxPriority .. MaxPriority
MaxPriority == 12

Priorities == (0 - MaxPriority)..MaxPriority

PolicyPaths == {"models/policy_0", "models/policy_1"}

Missing == [dir |-> FALSE, meta |-> NoneText]
EmptyDirectory == [dir |-> TRUE, meta |-> NoneText]
WithMeta(text) == [dir |-> TRUE, meta |-> text]

\* the digits of a natural number
RECURSIVE NatText(_)
NatText(n) ==
  IF n < 10 THEN <<Digits[n + 1]>>
  ELSE NatText(n \div 10) \o <<Digits[(n % 10) + 1]>>

\* how JSON writes an integer
IntText(n) == IF n < 0 THEN <<"-">> \o NatText(0 - n) ELSE NatText(n)

\* int of a JSON integer literal
IntOf(text) ==
  IF Head(text) = "-" THEN 0 - DigitsValue(Tail(text), 0)
  ELSE DigitsValue(text, 0)

\* utils.dump_obj_as_json_to_file for {"priority": p}: json.dumps with an
\* indentation of two
dump_meta(p) ==
  <<"{","\n"," "," ","\"","p","r","i","o","r","i","t","y","\"",":"," ">> \o IntText(p) \o <<"\n", "}">>

\* MappingPolicy.persist (lines 126-132): the directory is created if needed
\* and the file written
persist(fs, priority, path) ==
  [fs EXCEPT ![path] = WithMeta(dump_meta(priority))]

\* cls(**meta) (line 144), meta the outcome of json.loads: an empty dict
\* gives the default priority, a dict with the one key priority its value;
\* any other keyword is a TypeError, as is a value that is no dict
new_from_meta(meta) ==
  IF meta.raised # None THEN Raised(meta.raised)
  ELSE IF ~meta.isdict THEN Raised("TypeError")
  ELSE IF meta.pairs = <<>> THEN Returned(MappingPolicy(DefaultPriority))
  ELSE IF Len(meta.pairs) = 1 /\ meta.pairs[1].key = <<"p","r","i","o","r","i","t","y">>
    THEN Returned(MappingPolicy(IntOf(meta.pairs[1].val.text)))
  ELSE Raised("TypeError")

\* the {} of line 138
EmptyMeta == [raised |-> None, isdict |-> TRUE, pairs |-> <<>>]

\* faulty variant: the file is read without testing that it is there
load_without_isfile(fs, path) ==
  IF fs[path].dir
    THEN (IF fs[path].meta # NoneText THEN new_from_meta(json_loads(fs[path].meta))
          ELSE Raised("FileNotFoundError"))
    ELSE new_from_meta(EmptyMeta)

\* MappingPolicy.load (lines 134-144)
load(fs, path) ==
  IF fs[path].dir
    THEN (IF fs[path].meta # NoneText THEN new_from_meta(json_loads(fs[path].meta))
          ELSE new_from_meta(EmptyMeta))
    ELSE new_from_meta(EmptyMeta)

\* nothing has been persisted to the path
NotPersisted == [done |-> FALSE, priority |-> 0]

InitPersist ==
  /\ files \in [PolicyPaths -> {Missing, EmptyDirectory}]
  /\ this_policy \in {MappingPolicy(p) : p \in Priorities}
  /\ loaded_policy = NoLoaded
  /\ persisted = [path \in PolicyPaths |-> NotPersisted]
  /\ PolicyIdle /\ ParseIdle /\ CreateIdle /\ HttpIdle /\ NluIdle

\* policy.persist(path)
Persist ==
  /\ \E path \in PolicyPaths :
       /\ files' = persist(files, this_policy.priority, path)
       /\ persisted' = [persisted EXCEPT ![path] = [done |-> TRUE, priority |-> this_policy.priority]]
  /\ loaded_policy' = NoLoaded
  /\ UNCHANGED <<this_policy, outsidePersist>>

\* MappingPolicy.load(path)
LoadPolicy ==
  /\ \E path \in PolicyPaths :
       loaded_policy' = [path |-> path, outcome |-> load(files, path)]
  /\ UNCHANGED <<files, this_policy, persisted, outsidePersist>>

\* a loaded policy takes the place of the policy in memory
UseLoaded ==
  /\ loaded_policy.outcome.raised = None
  /\ this_policy' = loaded_policy.outcome.value
  /\ this_policy' # this_policy
  /\ UNCHANGED <<files, loaded_policy, persisted, outsidePersist>>

NextPersist ==
  \/ Persist
  \/ LoadPolicy
  \/ UseLoaded

SpecPersist == InitPersist /\ [][NextPersist]_vars

\* ------------------------------------------------------------------------
\* Properties of MappingPolicy.predict_action_probabilities (under Spec)
\* ------------------------------------------------------------------------

\* the policy has been asked on the current tracker state
Predicted == prediction # NoPrediction

\* the vector with 1 at every position of the name and 0 elsewhere
OneHot(dom, name) ==
  [i \in 1..Len(dom.action_names) |-> IF dom.action_names[i] = name THEN 1 ELSE 0]

AllZeros(dom) == [i \in 1..Len(dom.action_names) |-> 0]

InActionNames(dom, name) ==
  \E i \in 1..Len(dom.action_names) : dom.action_names[i] = name

\* the action mapped to the latest intent, as the domain and the built-in
\* intents give it
MappedNow ==
  LET intent == latest_intent(events)
  IN IF intent = "restart" THEN "action_restart"
     ELSE IF intent = "back" THEN "action_back"
     ELSE IF intent \in DOMAIN domain.intent_properties
       THEN domain.intent_properties[intent]
     ELSE None

\* the most recent ActionExecuted event of the log
LastExecuted == get_last_event_for(events, "action")

\* the latest executed action is the non-null mapped action and not listen
MappedActionRanLast ==
  /\ LastExecuted # NoEvent
  /\ LastExecuted.action_name = MappedNow
  /\ MappedNow # None
  /\ MappedNow # "action_listen"

\* C1: when the latest executed action is the non-null action mapped to the
\* latest intent, is not listen, and the most recent ActionExecuted event is
\* attributed to this policy (its class name, or a name ending in "_" + class
\* name), the returned vector has 1 at the index of listen and 0 elsewhere.
C1_OwnMappedActionReturnsToListen ==
  (/\ Predicted
   /\ MappedActionRanLast
   /\ LastExecuted.policy \in {ClassName, NamespacedSelf})
    => prediction = Returned(OneHot(domain, "action_listen"))

C1_Witness ==
  /\ Predicted
  /\ MappedActionRanLast
  /\ LastExecuted.policy = NamespacedSelf
  /\ prediction = Returned(OneHot(domain, "action_listen"))

\* C2: when the latest executed action is the non-null mapped action (not
\* listen) but the most recent ActionExecuted event names a different policy,
\* the returned vector is all zeros.
C2_ForeignMappedActionGivesZeros ==
  (/\ Predicted
   /\ MappedActionRanLast
   /\ LastExecuted.policy \in {OtherPolicy, LookalikePolicy})
    => prediction = Returned(AllZeros(domain))

C2_Witness ==
  /\ Predicted
  /\ MappedActionRanLast
  /\ LastExecuted.policy = LookalikePolicy
  /\ prediction = Returned(AllZeros(domain))

\* C3: when the latest action is listen and the latest intent has a mapped
\* action that is one of the domain's action names, the returned vector has 1
\* at that action's index and 0 everywhere else.
C3_ListenPredictsMappedAction ==
  (/\ Predicted
   /\ latest_action_name(events) = "action_listen"
   /\ MappedNow # None
   /\ InActionNames(domain, MappedNow))
    => prediction = Returned(OneHot(domain, MappedNow))

C3_Witness ==
  /\ Predicted
  /\ latest_action_name(events) = "action_listen"
  /\ MappedNow = "utter_greet"
  /\ InActionNames(domain, MappedNow)
  /\ prediction = Returned(OneHot(domain, "utter_greet"))

\* C5: every call returns, without raising, a vector of num_actions entries,
\* each 0 or 1, at most one of them 1; also when the most recent
\* ActionExecuted event has no attributed policy.
C5_AlwaysReturnsVector ==
  Predicted =>
    /\ prediction.raised = None
    /\ Len(prediction.value) = Len(domain.action_names)
    /\ \A i \in 1..Len(prediction.value) : prediction.value[i] \in {0, 1}
    /\ Cardinality({i \in 1..Len(prediction.value) : prediction.value[i] = 1}) <= 1

\* C6: with the latest intent the built-in restart (resp. back) intent and
\* the latest action listen, the returned vector has a single 1 at the index
\* of the built-in restart (resp. back) action, whatever the domain's
\* triggers say for that intent.
C6_BuiltinIntentsOverrideTriggers ==
  (/\ Predicted
   /\ latest_action_name(events) = "action_listen")
    => /\ latest_intent(events) = "restart"
            => prediction = Returned(OneHot(domain, "action_restart"))
       /\ latest_intent(events) = "back"
            => prediction = Returned(OneHot(domain, "action_back"))

\* a domain whose triggers name another action for the restart intent
C6_Witness ==
  /\ Predicted
  /\ latest_action_name(events) = "action_listen"
  /\ latest_intent(events) = "restart"
  /\ "restart" \in DOMAIN domain.intent_properties
  /\ domain.intent_properties["restart"] = "utter_bye"
  /\ prediction = Returned(OneHot(domain, "action_restart"))

\* the two positive cases of the policy: listen ran last and the mapped
\* action is a known action; the non-null mapped action ran last and was
\* attributed to this policy
ListenWithKnownMapping ==
  /\ latest_action_name(events) = "action_listen"
  /\ MappedNow # None
  /\ InActionNames(domain, MappedNow)

OwnMappedActionRanLast ==
  /\ LastExecuted # NoEvent
  /\ LastExecuted.action_name = MappedNow
  /\ MappedNow # None
  /\ LastExecuted.policy # NoneText
  /\ \/ LastExecuted.policy = ClassName
     \/ EndsWith(LastExecuted.policy, <<"_">> \o ClassName)

\* C18: in every state that is neither of the two positive cases the
\* returned vector is all zeros (no mapped action for the intent, a mapped
\* action the domain does not know, a latest action that is neither listen
\* nor the mapped action, a mapped action that is not attributed to this
\* policy); so the policy predicts an action other than listen only when
\* the latest action is listen.
C18_NoOpinionOutsidePositiveCases ==
  Predicted =>
    /\ (~ListenWithKnownMapping /\ ~OwnMappedActionRanLast)
         => prediction = Returned(AllZeros(domain))
    /\ predicted_action(domain, prediction) \notin {None, "action_listen"}
         => latest_action_name(events) = "action_listen"

\* the latest user message, and the actions logged after it
LastUserIndex == LastIndexOfType(events, "user", Len(events))

ActionsSinceUser ==
  [i \in 1..(Len(events) - LastUserIndex) |-> events[LastUserIndex + i].action_name]

\* a turn whose intent maps to a known action other than listen
InMappedTurn ==
  /\ LastUserIndex > 0
  /\ MappedNow # None
  /\ MappedNow # "action_listen"
  /\ InActionNames(domain, MappedNow)

\* what the policy predicted in the turn is what ran in it: nothing yet,
\* the mapped action, or the mapped action and then listen; and the
\* prediction at each of these points is the next of the two
TurnShape ==
  /\ turn = ActionsSinceUser
  /\ turn \in {<<>>, <<MappedNow>>, <<MappedNow, "action_listen">>}
  /\ (Predicted /\ turn = <<>>)
       => predicted_action(domain, prediction) = MappedNow
  /\ (Predicted /\ turn = <<MappedNow>>)
       => predicted_action(domain, prediction) = "action_listen"

\* C4: in a turn that starts from listen with a user message whose intent
\* maps to a known action A other than listen, where every prediction of the
\* policy is executed and attributed to it and no new user message arrives,
\* the policy predicts A once and then listen, never A twice in a row, and
\* the turn reaches listen.
C4_NoActionLoop ==
  /\ [](InMappedTurn => TurnShape)
  /\ (InMappedTurn ~> (InMappedTurn /\ turn = <<MappedNow, "action_listen">>))

C4_Witness ==
  /\ InMappedTurn
  /\ Len(events) = MaxTurnEvents
  /\ turn = <<MappedNow, "action_listen">>
  /\ LastEvent.policy = NamespacedSelf

\* ------------------------------------------------------------------------
\* Properties of RegexInterpreter.extract_intent_and_entities (under
\* SpecParse)
\* ------------------------------------------------------------------------

\* the parser has been called on the line and has returned or raised
Extracted == result.raised # "not called"

\* the first position of the character in the text, 0 when it has none
RECURSIVE FirstIndex(_, _, _)
FirstIndex(s, c, i) ==
  IF i > Len(s) THEN 0
  ELSE IF s[i] = c THEN i
  ELSE FirstIndex(s, c, i + 1)

\* the pattern cannot match: no character other than "{" and "@" is first
NoMatchLine(s) == s = <<>> \/ Head(s) \in {"{", "@"}

OneZero == [n |-> 1, d |-> 1]
ZeroZero == [n |-> 0, d |-> 1]

\* C7: for every input line the parser returns, never raising, a triple of an
\* intent name or null, a numeric confidence and an entity list; when the
\* line does not match the pattern the triple is (null, 0.0, []).
C7_ExtractIsTotal ==
  Extracted =>
    /\ result.raised = None
    /\ DOMAIN result.value = {"intent", "confidence", "entities"}
    /\ result.value.confidence.n >= 0 /\ result.value.confidence.d >= 1
    /\ \A k \in 1..Len(result.value.entities) :
         DOMAIN result.value.entities[k] = {"entity", "start", "end", "value"}
    /\ NoMatchLine(user_input)
         => result.value = [intent |-> NoneText, confidence |-> ZeroZero, entities |-> <<>>]
    /\ ~NoMatchLine(user_input) => result.value.intent # NoneText

\* malformed confidence and malformed entity JSON in one line
C7_Witness ==
  /\ user_input = <<"g","@",".","{","a",":","1","}">>
  /\ result = Returned([intent |-> <<"g">>, confidence |-> ZeroZero, entities |-> <<>>])

\* the line as the grammar reads it: an intent part, then "@" and a
\* confidence text up to the "{" of the entity part or the end of the line
AtIndex == FirstIndex(user_input, "@", 1)
BraceIndex == FirstIndex(user_input, "{", 1)

HasConfidencePart ==
  /\ AtIndex > 1
  /\ BraceIndex = 0 \/ BraceIndex > AtIndex

ConfidenceText ==
  SubSeq(user_input, AtIndex + 1,
         IF BraceIndex = 0 THEN Len(user_input) ELSE BraceIndex - 1)

\* C8: without an "@" confidence part the confidence is 1.0; with an "@"
\* part whose text after the "@" is not a parseable decimal number the
\* confidence is 0.0 and the intent name is still the text before the "@".
C8_ConfidenceRule ==
  (Extracted /\ ~NoMatchLine(user_input) /\ user_input[1] # "/") =>
    /\ AtIndex = 0 => result.value.confidence = OneZero
    /\ (HasConfidencePart /\ ConfidenceText # <<>> /\ float(ConfidenceText).raised # None)
         => /\ result.value.confidence = ZeroZero
            /\ result.value.intent = strip(SubSeq(user_input, 1, AtIndex - 1))

\* the entity part of the line: from its first "{" to the end of the line
LineEnd ==
  LET nl == FirstIndex(user_input, "\n", BraceIndex)
  IN IF nl = 0 THEN Len(user_input) ELSE nl - 1

EntityPart == SubSeq(user_input, BraceIndex, LineEnd)

\* the groups of the match, when the pattern matches the line
ConfidenceGroup ==
  IF search(user_input).matched THEN search(user_input).g2 ELSE NoGroup

EntityGroup ==
  IF search(user_input).matched THEN search(user_input).g3 ELSE NoGroup

HasEntityPart ==
  /\ Extracted
  /\ result.raised = None
  /\ EntityGroup # NoGroup

\* one entity per value of the item: the values of a list, or the value
ValuesOf(val) == IF val.kind = "list" THEN val.items ELSE <<val.text>>

RECURSIVE ExpectedEntities(_, _, _)
ExpectedEntities(pairs, from, to) ==
  IF pairs = <<>> THEN <<>>
  ELSE [n \in 1..Len(ValuesOf(pairs[1].val)) |->
          [entity |-> pairs[1].key, start |-> from, end |-> to,
           value |-> ValuesOf(pairs[1].val)[n]]]
         \o ExpectedEntities(Tail(pairs), from, to)

\* C9: when the entity part is a valid JSON object, the entity list has one
\* entry per key/value pair in the object's key order and each list's value
\* order (a list of N values gives N entries of that key), and every entry's
\* start and end are the offsets of the whole entity substring in the line.
C9_EntityRule ==
  (HasEntityPart /\ json_loads(EntityPart).isdict) =>
    result.value.entities =
      ExpectedEntities(json_loads(EntityPart).pairs, BraceIndex - 1, LineEnd)

\* two keys, the second with a list of two values: three entities
C9_Witness ==
  /\ HasEntityPart
  /\ user_input = <<"g","r","e","e","t","@","0",".","9","5">>
                    \o <<"{","\"","a","\"",":","1",",","\"","b","\"",":","[","2",",","3","]","}">>
  /\ Len(result.value.entities) = 3
  /\ result.value.entities[3] = [entity |-> <<"b">>, start |-> 10, end |-> 27, value |-> <<"3">>]

\* the line without its entity part
BeforeEntityPart == SubSeq(user_input, 1, EntityGroup.start)

\* the line without its confidence part: the intent part and then the
\* entity part, if it has one
WithoutConfidencePart ==
  SubSeq(user_input, 1, ConfidenceGroup.start)
    \o (IF EntityGroup = NoGroup THEN <<>>
        ELSE SubSeq(user_input, EntityGroup.start + 1, Len(user_input)))

ShiftedBy(entities, k) ==
  [n \in 1..Len(entities) |->
     [entities[n] EXCEPT !.start = @ + k, !.end = @ + k]]

Parsed == message.raised = None

\* C11: for every text that starts with the intent prefix the returned text
\* is the text; for every other text it is the prefix and then the text; and
\* parsing the returned text again returns the same text.
C11_TextNormalisation ==
  /\ [](Parsed =>
         /\ StartsWith(user_input, <<"/">>) => message.value.text = user_input
         /\ ~StartsWith(user_input, <<"/">>)
              => message.value.text = <<"/">> \o user_input)
  /\ [][(Parsed /\ message'.raised = None)
          => message'.value.text = message.value.text]_vars

\* the returned text of the line g@1. has been parsed again
C11_Witness ==
  /\ Parsed
  /\ user_input = <<"/","g","@","1",".">>
  /\ result = NoResult
  /\ message.value.text = user_input
  /\ message.value.intent = [name |-> <<"g">>, confidence |-> OneZero]

\* the line after one leading intent prefix character, if it has one
AfterPrefix(s) == IF StartsWith(s, <<"/">>) THEN Tail(s) ELSE s

\* the line has no intent part: nothing, or "@" or "{", follows the prefix
NoIntentPart(s) == AfterPrefix(s) = <<>> \/ Head(AfterPrefix(s)) \in {"@", "{"}

\* C19: when the line, after one leading intent prefix character if present,
\* has no intent part (it is empty or begins with "@" or "{"), the parser
\* returns (null, 0.0, []), with and without the prefix.
C19_IntentPartRequired ==
  (Extracted /\ NoIntentPart(user_input)) =>
    result = Returned([intent |-> NoneText, confidence |-> ZeroZero, entities |-> <<>>])

\* a decimal of the closed interval [0, 1]
InUnitInterval(f) == 0 <= f.n /\ f.n <= f.d

\* C20: for every line the confidence returned by the parser, and so the
\* intent confidence and the intent_ranking confidence of the message
\* returned by parse, is a number of the closed interval [0, 1].
C20_ConfidenceInUnitInterval ==
  /\ (Extracted /\ result.raised = None)
       => InUnitInterval(result.value.confidence)
  /\ Parsed
       => /\ InUnitInterval(message.value.intent.confidence)
          /\ InUnitInterval(message.value.intent_ranking[1].confidence)

\* ------------------------------------------------------------------------
\* Properties of NaturalLanguageInterpreter.create (under SpecCreate)
\* ------------------------------------------------------------------------
Created == created.raised # "not called"

\* C12: if a remote endpoint is configured, the result is a
\* RasaNLUHttpInterpreter bound to that endpoint, whatever obj is, for every
\* obj that is not itself an interpreter instance.
C12_EndpointSelectsHttp ==
  (Created /\ endpoint # NoEndpoint /\ obj.kind # "interpreter") =>
    /\ created.raised = None
    /\ created.value.variant = "RasaNLUHttpInterpreter"
    /\ created.value.endpoint = endpoint

\* C13: with no endpoint configured, an interpreter instance is returned
\* unchanged, an obj that is no string gives a RegexInterpreter, a string
\* naming an existing location gives a RasaNLUInterpreter bound to that
\* location, a string naming no existing location gives a RegexInterpreter;
\* none of these cases raises.
C13_NoEndpointSelection ==
  (Created /\ endpoint = NoEndpoint) =>
    /\ created.raised = None
    /\ obj.kind = "interpreter" => created.value = obj
    /\ obj.kind \notin {"interpreter", "str"}
         => created.value.variant = "RegexInterpreter"
    /\ (obj.kind = "str" /\ storage[obj.path] # "missing")
         => /\ created.value.variant = "RasaNLUInterpreter"
            /\ created.value.model_directory = obj.path
    /\ (obj.kind = "str" /\ storage[obj.path] = "missing")
         => created.value.variant = "RegexInterpreter"

\* ------------------------------------------------------------------------
\* Properties of RasaNLUHttpInterpreter.parse (under SpecHttp)
\* ------------------------------------------------------------------------

\* the call made a request and has returned or raised
RequestDone == http.pc = "done" /\ http.requests > 0

\* the request was answered with status 200 and a body that decodes
SuccessfulRequest ==
  /\ http.transport = "response"
  /\ http.status = 200
  /\ http.body \in {MessageBody, NullBody}

\* C14: for every outcome of the request other than a 200 response with a
\* decodable body (another status, a connection error, a failure while
\* reading or decoding the response) parse returns the fixed default message
\* and no exception escapes; a parse call makes at most one request.
C14_FailuresGiveDefault ==
  /\ http.requests <= 1
  /\ RequestDone => http.returned.raised = None
  /\ (RequestDone /\ ~SuccessfulRequest)
       => http.returned =
            Returned([intent |-> [name |-> <<>>, confidence |-> ZeroZero],
                      entities |-> <<>>, text |-> <<>>])

\* a 200 response whose body is no JSON, in the second call
C14_Witness ==
  /\ RequestDone
  /\ http.calls = 2
  /\ http.status = 200
  /\ http.body = HtmlBody
  /\ http.returned.value.text = <<>>

\* ------------------------------------------------------------------------
\* Properties of RasaNLUInterpreter (under SpecLazy and SpecLoadOnce)
\* ------------------------------------------------------------------------

\* the instance is constructed on a location that holds a model, so that
\* its load succeeds
LoadSucceeds == Constructed /\ storage[Instance.model_directory] = "model"

\* the capability of the first load of the instance's model
FirstCapability == [model |-> Instance.model_directory, load |-> 1]

\* every finished call parsed with the capability of the first load
AllUseFirstCapability ==
  \A k \in 1..Len(history) :
    history[k].returned = Returned([parsed_by |-> FirstCapability])

\* C15: when several parse calls are started concurrently on one instance
\* constructed with lazy_init and not yet loaded, the model is loaded
\* exactly once in every interleaving of the calls, and every call uses the
\* capability that load produced.
C15_ConcurrentCallsLoadOnce ==
  (LoadSucceeds /\ Instance.lazy_init) =>
    /\ loads <= 1
    /\ Len(history) > 0 => loads = 1
    /\ AllUseFirstCapability

\* C16: a lazy instance performs no load at construction; in a sequence of
\* parse calls whose load succeeds the first call performs exactly one load
\* before parsing, every later call none, and all use the same capability;
\* an instance constructed without lazy_init loads exactly once at
\* construction and never in parse.
C16_LoadOnce ==
  LoadSucceeds =>
    /\ (Instance.lazy_init /\ Started = 0)
         => (loads = 0 /\ Instance.interpreter = NoCapability)
    /\ Instance.lazy_init
         => \A k \in 1..Len(history) : history[k].loaded = (IF k = 1 THEN 1 ELSE 0)
    /\ ~Instance.lazy_init
         => /\ loads = 1
            /\ \A k \in 1..Len(history) : history[k].loaded = 0
    /\ loads <= 1
    /\ AllUseFirstCapability

\* three calls on a lazy instance, made by both callers
C16_Witness ==
  /\ LoadSucceeds
  /\ Instance.lazy_init
  /\ Len(history) = MaxParseCalls
  /\ history[1].loaded = 1
  /\ history[1].caller # history[2].caller
  /\ history[MaxParseCalls].returned = Returned([parsed_by |-> FirstCapability])
  /\ loads = 1

\* ------------------------------------------------------------------------
\* Properties of MappingPolicy.persist and MappingPolicy.load (under
\* SpecPersist)
\* ------------------------------------------------------------------------
Loaded == loaded_policy.outcome.raised # "not called"

\* C17: loading from a path to which a policy with priority p was persisted
\* gives a policy with priority p; loading from a path that does not exist,
\* or from a directory without the metadata file, gives a policy with the
\* default priority 3; neither raises.
C17_PersistLoadRoundTrip ==
  Loaded =>
    /\ loaded_policy.outcome.raised = None
    /\ persisted[loaded_policy.path].done
         => loaded_policy.outcome.value.priority = persisted[loaded_policy.path].priority
    /\ ~persisted[loaded_policy.path].done
         => loaded_policy.outcome.value.priority = 3

\* a negative priority of two digits read back, the other path being a
\* directory without the file
C17_Witness ==
  /\ Loaded
  /\ persisted[loaded_policy.path] = [done |-> TRUE, priority |-> 0 - 12]
  /\ loaded_policy.outcome = Returned([priority |-> 0 - 12])
  /\ \E path \in PolicyPaths : files[path] = [dir |-> TRUE, meta |-> NoneText]

\* ------------------------------------------------------------------------
\* Load failure in RasaNLUInterpreter.parse (under SpecLazy)
\* ------------------------------------------------------------------------
LoadFails == Constructed /\ storage[Instance.model_directory] # "model"

\* the call of caller c is about to load
AboutToLoad(c) == calls[c].pc = "load"

\* a finished call whose load failed
FailedCall(k) == history[k].returned.raised = "load failure"

ExecutedBranchTaken ==
  /\ latest_action_name(events) # ACTION_LISTEN_NAME
  /\ latest_action_name(events) = mapped_action(domain, latest_intent(events))
  /\ mapped_action(domain, latest_intent(events)) # None

\* C22: whenever the branch "the latest action is the non-null mapped action
\* and not listen" is taken, the lookup of the last ActionExecuted event
\* returns an event whose action name is the mapped action, and the
\* prediction does not end in an AssertionError.
C22_AssertionHolds ==
  ExecutedBranchTaken =>
    /\ get_last_event_for(events, "action") # NoEvent
    /\ get_last_event_for(events, "action").action_name
         = mapped_action(domain, latest_intent(events))
    /\ Predicted => prediction.raised # "AssertionError"

\* the branch is taken after an earlier action of another name was executed
C22_Witness ==
  /\ ExecutedBranchTaken
  /\ Predicted
  /\ prediction.raised = None
  /\ \E i \in 1..Len(events) :
       /\ events[i].type = "action"
       /\ events[i].action_name # mapped_action(domain, latest_intent(events))

\* ------------------------------------------------------------------------
\* Entity offsets in the message of RegexInterpreter.parse (under SpecParse)
\* ------------------------------------------------------------------------

\* the characters of the text from the 0-based start up to the end
Slice(text, start, end) == SubSeq(text, start + 1, end)

\* C23: for every entity of the returned message, the characters of the
\* returned text from the entity's start up to its end are the bracketed
\* entity substring of the line, which begins with "{".
C23_OffsetsAgreeWithText ==
  Parsed =>
    \A k \in 1..Len(message.value.entities) :
      /\ Slice(message.value.text, message.value.entities[k].start,
                message.value.entities[k].end)
           = Slice(user_input, message.value.entities[k].start,
                   message.value.entities[k].end)
      /\ Head(Slice(message.value.text, message.value.entities[k].start,
                     message.value.entities[k].end)) = "{"

====
